---- MODULE Spec2Model ----
(***************************************************************************)
(* Model of assembler.py: the Instr class of the transport-triggered       *)
(* assembler (constructor, hex() and asm()).                                *)
(*                                                                         *)
(* Representation.  A Python int that can exceed 31 bits (the instruction  *)
(* word op, the operands) is the sequence of its binary digits, least      *)
(* significant first, without high zero digits (0 is << >>): Python ints   *)
(* are unbounded, so no width is imposed.  Unit codes and indices are      *)
(* naturals.  A Python str is the sequence of its characters.  A Python    *)
(* value that may be None is a record [isNone, bits].                      *)
(***************************************************************************)
EXTENDS Naturals, Sequences, FiniteSets

VARIABLES args, pc, instr, hexOut, asmOut

vars == <<args, pc, instr, hexOut, asmOut>>

(* ------------------------------------------------------------------ *)
(* Unit codes                                                         *)
(* ------------------------------------------------------------------ *)
UNIT_NONE == 0
UNIT_STACK_PUSH_POP == 1
UNIT_STACK_INDEX == 2
UNIT_REGISTER == 3
UNIT_ALU_LEFT == 4
UNIT_ALU_RIGHT == 5
UNIT_ALU_OPERATOR == 6
UNIT_ALU_RESULT == 7
UNIT_MEMORY_IMMEDIATE == 8
UNIT_MEMORY_OPERAND == 9
UNIT_PC == 10
UNIT_ABS_IMMEDIATE == 11
UNIT_ABS_OPERAND == 12

(* ------------------------------------------------------------------ *)
(* Python ints as binary digit sequences                              *)
(* ------------------------------------------------------------------ *)
RECURSIVE Bits(_)
Bits(n) == IF n = 0 THEN << >> ELSE <<n % 2>> \o Bits(n \div 2)

BitAt(b, i) == IF i <= Len(b) THEN b[i] ELSE 0

MaxOf(x, y) == IF x >= y THEN x ELSE y

\* a | b
BitOr(a, b) ==
    [i \in 1..MaxOf(Len(a), Len(b)) |->
        IF BitAt(a, i) = 1 \/ BitAt(b, i) = 1 THEN 1 ELSE 0]

\* b << n
Shl(b, n) == IF b = << >> THEN << >> ELSE [i \in 1..n |-> 0] \o b

\* The Python value None, and an int value
None == [isNone |-> TRUE, bits |-> << >>]
IntVal(b) == [isNone |-> FALSE, bits |-> b]

(* ------------------------------------------------------------------ *)
(* "{:0Wx}".format(v): lowercase hex, zero-padded to at least W digits *)
(* ------------------------------------------------------------------ *)
HexChars ==
    <<"0", "1", "2", "3", "4", "5", "6", "7",
      "8", "9", "a", "b", "c", "d", "e", "f">>

\* value of the k-th hex digit of b, k = 0 the least significant
Nibble(b, k) ==
    BitAt(b, 4 * k + 1) + 2 * BitAt(b, 4 * k + 2)
      + 4 * BitAt(b, 4 * k + 3) + 8 * BitAt(b, 4 * k + 4)

HexDigits(b) ==
    LET n == IF b = << >> THEN 1 ELSE (Len(b) + 3) \div 4
    IN  [j \in 1..n |-> HexChars[Nibble(b, n - j) + 1]]

FormatHex(b, width) ==
    LET d == HexDigits(b)
    IN  IF Len(d) >= width THEN d
        ELSE [i \in 1..(width - Len(d)) |-> "0"] \o d

(* ------------------------------------------------------------------ *)
(* Instr.__init__                                                     *)
(* ------------------------------------------------------------------ *)
\* mutant: the destination unit shifted by 12 instead of 16
InstrOp_DestShift12(sunit, si, dunit, di) ==
    LET op0 == << >>
        op1 == BitOr(op0, Bits(sunit))
        op2 == BitOr(op1, Shl(Bits(si), 4))
        op3 == BitOr(op2, Shl(Bits(dunit), 12))
        op4 == BitOr(op3, Shl(Bits(di), 20))
    IN  op4

\* mutant: the source index shifted by 3 instead of 4
InstrOp_IndexShift3(sunit, si, dunit, di) ==
    LET op0 == << >>
        op1 == BitOr(op0, Bits(sunit))
        op2 == BitOr(op1, Shl(Bits(si), 3))
        op3 == BitOr(op2, Shl(Bits(dunit), 16))
        op4 == BitOr(op3, Shl(Bits(di), 20))
    IN  op4

\* the instruction word op built by the constructor
InstrOp(sunit, si, dunit, di) ==
    LET op0 == << >>
        op1 == BitOr(op0, Bits(sunit))
        op2 == BitOr(op1, Shl(Bits(si), 4))
        op3 == BitOr(op2, Shl(Bits(dunit), 16))
        op4 == BitOr(op3, Shl(Bits(di), 20))
    IN  op4

NewInstr(sunit, si, dunit, di, soperand, doperand) ==
    [si |-> si, di |-> di, dunit |-> dunit, sunit |-> sunit,
     soperand |-> soperand, doperand |-> doperand,
     op |-> InstrOp(sunit, si, dunit, di)]

\* the object before the constructor has run
NoInstr ==
    [si |-> 0, di |-> 0, dunit |-> 0, sunit |-> 0,
     soperand |-> None, doperand |-> None, op |-> << >>]

\* the result of a method not called yet, of one that raised, of one that returned
NotCalled == [called |-> FALSE, raised |-> FALSE, text |-> << >>]
Raised == [called |-> TRUE, raised |-> TRUE, text |-> << >>]
Returned(s) == [called |-> TRUE, raised |-> FALSE, text |-> s]

(* ------------------------------------------------------------------ *)
(* Instr.hex                                                          *)
(* ------------------------------------------------------------------ *)
UsesOperand(unit) == unit = UNIT_MEMORY_OPERAND \/ unit = UNIT_ABS_OPERAND

\* mutant: the destination operand appended before the source operand
hex_DestOperandFirst(self) ==
    IF UsesOperand(self.sunit) /\ self.soperand.isNone THEN Raised
    ELSE IF UsesOperand(self.dunit) /\ self.doperand.isNone THEN Raised
    ELSE
      LET asm0 == FormatHex(self.op, 8)
          asm1 == IF UsesOperand(self.dunit)
                  THEN asm0 \o <<" ">> \o FormatHex(self.doperand.bits, 8)
                  ELSE asm0
          asm2 == IF UsesOperand(self.sunit)
                  THEN asm1 \o <<" ">> \o FormatHex(self.soperand.bits, 8)
                  ELSE asm1
      IN  Returned(asm2)

\* format() of None raises
hex(self) ==
    IF UsesOperand(self.sunit) /\ self.soperand.isNone THEN Raised
    ELSE IF UsesOperand(self.dunit) /\ self.doperand.isNone THEN Raised
    ELSE
      LET asm0 == FormatHex(self.op, 8)
          asm1 == IF UsesOperand(self.sunit)
                  THEN asm0 \o <<" ">> \o FormatHex(self.soperand.bits, 8)
                  ELSE asm0
          asm2 == IF UsesOperand(self.dunit)
                  THEN asm1 \o <<" ">> \o FormatHex(self.doperand.bits, 8)
                  ELSE asm1
      IN  Returned(asm2)

(* ------------------------------------------------------------------ *)
(* Instr.asm                                                          *)
(* ------------------------------------------------------------------ *)
\* mutant: JMP rendered as an assignment
asmDest_JmpAssign(self) ==
    IF self.dunit = UNIT_STACK_PUSH_POP THEN <<"P", "U", "S", "H", " ">>
    ELSE IF self.dunit = UNIT_STACK_INDEX
      THEN <<"S">> \o FormatHex(Bits(self.di), 6) \o <<" ", ":", "=", " ">>
    ELSE IF self.dunit = UNIT_REGISTER
      THEN <<"R">> \o FormatHex(Bits(self.di), 2) \o <<" ", ":", "=", " ">>
    ELSE IF self.dunit = UNIT_ALU_RIGHT
      THEN <<"A", "L", "U", ":", "R", "I", "G", "H", "T", " ", ":", "=", " ">>
    ELSE IF self.dunit = UNIT_ALU_LEFT
      THEN <<"A", "L", "U", ":", "L", "E", "F", "T", " ", ":", "=", " ">>
    ELSE IF self.dunit = UNIT_ALU_OPERATOR
      THEN <<"A", "L", "U", ":", "O", "P", "E", "R", "A", "T", "O", "R",
             " ", ":", "=", " ">>
    ELSE IF self.dunit = UNIT_MEMORY_IMMEDIATE
      THEN <<"*", "(">> \o FormatHex(Bits(self.di), 6)
             \o <<")", " ", ":", "=", " ">>
    ELSE IF self.dunit = UNIT_MEMORY_OPERAND
      THEN <<"*", "(">> \o FormatHex(self.doperand.bits, 8)
             \o <<")", " ", ":", "=", " ">>
    ELSE IF self.dunit = UNIT_PC
      THEN <<"J", "M", "P", " ", ":", "=", " ">>
    ELSE << >>

\* the first if/elif chain, past the NOP return: the destination text
\* (the empty string where no branch matches)
asmDest(self) ==
    IF self.dunit = UNIT_STACK_PUSH_POP THEN <<"P", "U", "S", "H", " ">>
    ELSE IF self.dunit = UNIT_STACK_INDEX
      THEN <<"S">> \o FormatHex(Bits(self.di), 6) \o <<" ", ":", "=", " ">>
    ELSE IF self.dunit = UNIT_REGISTER
      THEN <<"R">> \o FormatHex(Bits(self.di), 2) \o <<" ", ":", "=", " ">>
    ELSE IF self.dunit = UNIT_ALU_RIGHT
      THEN <<"A", "L", "U", ":", "R", "I", "G", "H", "T", " ", ":", "=", " ">>
    ELSE IF self.dunit = UNIT_ALU_LEFT
      THEN <<"A", "L", "U", ":", "L", "E", "F", "T", " ", ":", "=", " ">>
    ELSE IF self.dunit = UNIT_ALU_OPERATOR
      THEN <<"A", "L", "U", ":", "O", "P", "E", "R", "A", "T", "O", "R",
             " ", ":", "=", " ">>
    ELSE IF self.dunit = UNIT_MEMORY_IMMEDIATE
      THEN <<"*", "(">> \o FormatHex(Bits(self.di), 6)
             \o <<")", " ", ":", "=", " ">>
    ELSE IF self.dunit = UNIT_MEMORY_OPERAND
      THEN <<"*", "(">> \o FormatHex(self.doperand.bits, 8)
             \o <<")", " ", ":", "=", " ">>
    ELSE IF self.dunit = UNIT_PC THEN <<"J", "M", "P", " ">>
    ELSE << >>

\* mutant: the absolute immediate padded to 4 digits
asmSrc_ImmWidth4(self) ==
    IF self.sunit = UNIT_NONE THEN <<"#", "0">>
    ELSE IF self.sunit = UNIT_STACK_PUSH_POP THEN <<"P", "O", "P", " ">>
    ELSE IF self.sunit = UNIT_STACK_INDEX
      THEN <<"S">> \o FormatHex(Bits(self.si), 6)
    ELSE IF self.sunit = UNIT_REGISTER
      THEN <<"R">> \o FormatHex(Bits(self.si), 2)
    ELSE IF self.sunit = UNIT_ALU_RIGHT
      THEN <<"A", "L", "U", ":", "R", "I", "G", "H", "T", " ">>
    ELSE IF self.sunit = UNIT_ALU_LEFT
      THEN <<"A", "L", "U", ":", "L", "E", "F", "T">>
    ELSE IF self.sunit = UNIT_ALU_OPERATOR
      THEN <<"A", "L", "U", ":", "O", "P", "E", "R", "A", "T", "O", "R">>
    ELSE IF self.sunit = UNIT_ALU_RESULT
      THEN <<"A", "L", "U", ":", "R", "E", "S", "U", "L", "T">>
    ELSE IF self.sunit = UNIT_MEMORY_IMMEDIATE
      THEN <<"*", "(">> \o FormatHex(Bits(self.si), 6) \o <<")">>
    ELSE IF self.sunit = UNIT_MEMORY_OPERAND
      THEN <<"*", "(">> \o FormatHex(self.soperand.bits, 8) \o <<")">>
    ELSE IF self.sunit = UNIT_PC THEN <<"P", "C">>
    ELSE IF self.sunit = UNIT_ABS_IMMEDIATE
      THEN <<"#">> \o FormatHex(Bits(self.si), 4)
    ELSE IF self.sunit = UNIT_ABS_OPERAND
      THEN <<"#">> \o FormatHex(self.soperand.bits, 8)
    ELSE << >>

\* the second if/elif chain: the source text appended to asm
asmSrc(self) ==
    IF self.sunit = UNIT_NONE THEN <<"#", "0">>
    ELSE IF self.sunit = UNIT_STACK_PUSH_POP THEN <<"P", "O", "P", " ">>
    ELSE IF self.sunit = UNIT_STACK_INDEX
      THEN <<"S">> \o FormatHex(Bits(self.si), 6)
    ELSE IF self.sunit = UNIT_REGISTER
      THEN <<"R">> \o FormatHex(Bits(self.si), 2)
    ELSE IF self.sunit = UNIT_ALU_RIGHT
      THEN <<"A", "L", "U", ":", "R", "I", "G", "H", "T", " ">>
    ELSE IF self.sunit = UNIT_ALU_LEFT
      THEN <<"A", "L", "U", ":", "L", "E", "F", "T">>
    ELSE IF self.sunit = UNIT_ALU_OPERATOR
      THEN <<"A", "L", "U", ":", "O", "P", "E", "R", "A", "T", "O", "R">>
    ELSE IF self.sunit = UNIT_ALU_RESULT
      THEN <<"A", "L", "U", ":", "R", "E", "S", "U", "L", "T">>
    ELSE IF self.sunit = UNIT_MEMORY_IMMEDIATE
      THEN <<"*", "(">> \o FormatHex(Bits(self.si), 6) \o <<")">>
    ELSE IF self.sunit = UNIT_MEMORY_OPERAND
      THEN <<"*", "(">> \o FormatHex(self.soperand.bits, 8) \o <<")">>
    ELSE IF self.sunit = UNIT_PC THEN <<"P", "C">>
    ELSE IF self.sunit = UNIT_ABS_IMMEDIATE
      THEN <<"#">> \o FormatHex(Bits(self.si), 6)
    ELSE IF self.sunit = UNIT_ABS_OPERAND
      THEN <<"#">> \o FormatHex(self.soperand.bits, 8)
    ELSE << >>

\* mutant: no early return of NOP
asm_NoNopReturn(self) ==
    IF self.dunit = UNIT_MEMORY_OPERAND /\ self.doperand.isNone
      THEN Raised
    ELSE IF UsesOperand(self.sunit) /\ self.soperand.isNone THEN Raised
    ELSE Returned(asmDest(self) \o asmSrc(self))

\* format() of None raises, in the branches that format an operand
asm(self) ==
    IF self.dunit = UNIT_NONE THEN Returned(<<"N", "O", "P">>)
    ELSE IF self.dunit = UNIT_MEMORY_OPERAND /\ self.doperand.isNone
      THEN Raised
    ELSE IF UsesOperand(self.sunit) /\ self.soperand.isNone THEN Raised
    ELSE Returned(asmDest(self) \o asmSrc(self))

(* ------------------------------------------------------------------ *)
(* Inputs                                                             *)
(* ------------------------------------------------------------------ *)
MaxSmallIndex == 1
MaxSmallOperand == 0
MaxUnit == 13
MaxIndexExcess == 0

Units == UNIT_NONE..UNIT_ABS_OPERAND

\* 12-bit indices: small ones, the 2-digit boundary, the values of main(), the top
Indices == (0..MaxSmallIndex) \cup {255, 256, 1347, 1638, 4095}

AllOnes32 == [i \in 1..32 |-> 1]

\* 32-bit operands: small ones, 0x543 of main(), 0xffffffff
Operands ==
    {IntVal(Bits(k)) : k \in 0..MaxSmallOperand}
      \cup {IntVal(Bits(1347)), IntVal(AllOnes32)}

OperandsFor(unit) == IF UsesOperand(unit) THEN Operands ELSE {None}

\* the constructor's arguments, any ints and operands given or not
AnyUnits == 0..MaxUnit
AnyIndices == {0, 1638, 4095} \cup {4096 + k : k \in 0..MaxIndexExcess}
AnyOperands == {None, IntVal(Bits(1347))}

Start ==
    /\ pc = "new"
    /\ instr = NoInstr
    /\ hexOut = NotCalled
    /\ asmOut = NotCalled

\* well-formed arguments
Init ==
    /\ \E su \in Units, du \in Units, i \in Indices, j \in Indices :
         \E so \in OperandsFor(su), do \in OperandsFor(du) :
           args = [sunit |-> su, si |-> i, dunit |-> du, di |-> j,
                   soperand |-> so, doperand |-> do]
    /\ Start

\* arbitrary arguments
InitAny ==
    /\ \E su \in AnyUnits, du \in AnyUnits, i \in AnyIndices, j \in AnyIndices :
         \E so \in AnyOperands, do \in AnyOperands :
           args = [sunit |-> su, si |-> i, dunit |-> du, di |-> j,
                   soperand |-> so, doperand |-> do]
    /\ Start

(* ------------------------------------------------------------------ *)
(* Operations                                                         *)
(* ------------------------------------------------------------------ *)
Construct ==
    /\ pc = "new"
    /\ instr' = NewInstr(args.sunit, args.si, args.dunit, args.di,
                         args.soperand, args.doperand)
    /\ pc' = "built"
    /\ UNCHANGED <<args, hexOut, asmOut>>

Hex ==
    /\ pc = "built"
    /\ ~hexOut.called
    /\ hexOut' = hex(instr)
    /\ UNCHANGED <<args, pc, instr, asmOut>>

Asm ==
    /\ pc = "built"
    /\ ~asmOut.called
    /\ asmOut' = asm(instr)
    /\ UNCHANGED <<args, pc, instr, hexOut>>

Next == Construct \/ Hex \/ Asm

Spec == Init /\ [][Next]_vars

SpecAny == InitAny /\ [][Next]_vars

(* ------------------------------------------------------------------ *)
(* Reading words and texts back                                       *)
(* ------------------------------------------------------------------ *)
\* the value of the n binary digits of b from bit lo on (bit 0 the least)
RECURSIVE FieldVal(_, _, _)
FieldVal(b, lo, n) ==
    IF n = 0 THEN 0 ELSE BitAt(b, lo + 1) + 2 * FieldVal(b, lo + 1, n - 1)

IsHexDigit(c) == \E k \in 1..16 : HexChars[k] = c

CharVal(c) == CHOOSE v \in 0..15 : HexChars[v + 1] = c

RECURSIVE Normalize(_)
Normalize(b) ==
    IF b = << >> THEN << >>
    ELSE IF b[Len(b)] = 0 THEN Normalize(SubSeq(b, 1, Len(b) - 1))
    ELSE b

\* the int a string of hex digits denotes
ParseHex(w) ==
    LET n == Len(w)
        bit(v, k) == (v \div (IF k = 0 THEN 1 ELSE IF k = 1 THEN 2
                              ELSE IF k = 2 THEN 4 ELSE 8)) % 2
    IN  Normalize([i \in 1..(4 * n) |->
                     bit(CharVal(w[n - ((i - 1) \div 4)]), (i - 1) % 4)])

IsHexWord(w) == \A k \in 1..Len(w) : IsHexDigit(w[k])

\* the words of a text, separated by single spaces
RECURSIVE SplitWords(_)
SplitWords(s) ==
    IF \E k \in 1..Len(s) : s[k] = " "
    THEN LET k == CHOOSE j \in 1..Len(s) :
                    s[j] = " " /\ \A h \in 1..(j - 1) : s[h] # " "
         IN  <<SubSeq(s, 1, k - 1)>> \o SplitWords(SubSeq(s, k + 1, Len(s)))
    ELSE <<s>>

\* the instruction a word sequence denotes, by the layout of the primary
\* word and the rule of the extension words
Decode(w) ==
    LET p == ParseHex(w[1])
        su == FieldVal(p, 0, 4)
        du == FieldVal(p, 16, 4)
    IN  [sunit |-> su, si |-> FieldVal(p, 4, 12),
         dunit |-> du, di |-> FieldVal(p, 20, 12),
         soperand |-> IF UsesOperand(su) THEN IntVal(ParseHex(w[2])) ELSE None,
         doperand |-> IF UsesOperand(du)
                      THEN IntVal(ParseHex(w[IF UsesOperand(su) THEN 3 ELSE 2]))
                      ELSE None]

(* ------------------------------------------------------------------ *)
(* Properties                                                         *)
(* ------------------------------------------------------------------ *)

\* C1: for unit codes in 0..12 and indices in 0..4095 the word built by the
\* constructor holds the source unit in bits 0-3, the source index in bits
\* 4-15, the destination unit in bits 16-19 and the destination index in
\* bits 20-31, and has no bit above bit 31.
C1_PrimaryWordLayout ==
    pc = "built" =>
      /\ FieldVal(instr.op, 0, 4) = args.sunit
      /\ FieldVal(instr.op, 4, 12) = args.si
      /\ FieldVal(instr.op, 16, 4) = args.dunit
      /\ FieldVal(instr.op, 20, 12) = args.di
      /\ Len(instr.op) <= 32

C1_Witness ==
    /\ pc = "built"
    /\ args.sunit = UNIT_ABS_OPERAND /\ args.si = 4095
    /\ args.dunit = UNIT_MEMORY_OPERAND /\ args.di = 4095
    /\ Len(instr.op) = 32

\* C2: hex() gives the primary word, then the source operand as one word
\* exactly when the source unit is MemoryOperand or AbsoluteOperand, then
\* the destination operand as one word exactly when the destination unit
\* is; so 1, 2 or 3 words of 8 hex digits, each extension word equal to
\* its side's operand.
C2_EncodeWords ==
    hexOut.called =>
      /\ ~hexOut.raised
      /\ LET w == SplitWords(hexOut.text)
             s == UsesOperand(instr.sunit)
             d == UsesOperand(instr.dunit)
         IN  /\ Len(w) = 1 + (IF s THEN 1 ELSE 0) + (IF d THEN 1 ELSE 0)
             /\ \A k \in 1..Len(w) : Len(w[k]) = 8 /\ IsHexWord(w[k])
             /\ ParseHex(w[1]) = instr.op
             /\ s => ParseHex(w[2]) = instr.soperand.bits
             /\ d => ParseHex(w[IF s THEN 3 ELSE 2]) = instr.doperand.bits

C2_Witness ==
    /\ hexOut.called
    /\ UsesOperand(instr.sunit) /\ UsesOperand(instr.dunit)
    /\ instr.soperand # instr.doperand
    /\ Len(SplitWords(hexOut.text)) = 3

\* C3: decoding the words hex() gives, by the bit layout and the
\* extension-word rule, yields the units, the indices and the operands the
\* instruction was built from (so distinct well-formed instructions have
\* distinct encodings).
C3_RoundTrip ==
    hexOut.called =>
      /\ ~hexOut.raised
      /\ Decode(SplitWords(hexOut.text)) = args

C3_Witness ==
    /\ hexOut.called
    /\ args.sunit = UNIT_MEMORY_OPERAND /\ args.si = 4095
    /\ args.dunit = UNIT_ABS_OPERAND /\ args.di = 1638
    /\ args.soperand = IntVal(AllOnes32)
    /\ args.doperand = IntVal(Bits(1347))

\* the arguments of the first instruction of main()
Example1 ==
    [sunit |-> UNIT_ABS_IMMEDIATE, si |-> 1638,
     dunit |-> UNIT_REGISTER, di |-> 0,
     soperand |-> None, doperand |-> None]

\* C10 (as stated): Instr(UNIT_ABS_IMMEDIATE, 0x666, UNIT_REGISTER, 0) has
\* the primary word 0x00006663, encodes to that word alone and
\* disassembles to "R00 := #000666".
C10_ExampleAsStated ==
    (args = Example1 /\ pc = "built") =>
      /\ instr.op = Bits(26211)
      /\ hexOut.called =>
           hexOut = Returned(<<"0", "0", "0", "0", "6", "6", "6", "3">>)
      /\ asmOut.called =>
           asmOut = Returned(<<"R", "0", "0", " ", ":", "=", " ",
                               "#", "0", "0", "0", "6", "6", "6">>)

\* C10 (amended): Instr(UNIT_ABS_IMMEDIATE, 0x666, UNIT_REGISTER, 0) has the
\* primary word 0x0003666b, encodes to that word alone and disassembles to
\* "R00 := #000666".
C10_Example ==
    (args = Example1 /\ pc = "built") =>
      /\ instr.op = Bits(222827)
      /\ hexOut.called =>
           hexOut = Returned(<<"0", "0", "0", "3", "6", "6", "6", "b">>)
      /\ asmOut.called =>
           asmOut = Returned(<<"R", "0", "0", " ", ":", "=", " ",
                               "#", "0", "0", "0", "6", "6", "6">>)

C10_Witness == args = Example1 /\ hexOut.called /\ asmOut.called

\* C4 (as stated): the constructor masks an index to 12 bits: for any
\* index, also above 4095, only its low 12 bits enter the word, the bits of
\* the other three fields are those of the word built with that index 0,
\* and the word has no bit above bit 31.
C4_IndexMasked ==
    (pc = "built" /\ args.sunit \in Units /\ args.dunit \in Units) =>
      LET op == instr.op
          noSi == InstrOp(args.sunit, 0, args.dunit, args.di)
          noDi == InstrOp(args.sunit, args.si, args.dunit, 0)
      IN  /\ Len(op) <= 32
          /\ FieldVal(op, 4, 12) = args.si % 4096
          /\ FieldVal(op, 20, 12) = args.di % 4096
          /\ FieldVal(op, 0, 4) = FieldVal(noSi, 0, 4)
          /\ FieldVal(op, 16, 16) = FieldVal(noSi, 16, 16)
          /\ FieldVal(op, 0, 20) = FieldVal(noDi, 0, 20)

\* C5 (as stated): no instruction is built from a unit code outside 0..12,
\* so neither hex() nor asm() is ever applied to one.
C5_UnknownUnitRejected ==
    (pc = "built" \/ hexOut.called \/ asmOut.called) =>
      (args.sunit \in Units /\ args.dunit \in Units)

\* C6: asm() of an instruction whose destination unit is None returns
\* exactly "NOP", whatever the source unit, the indices and the operands.
C6_NopForNoDest ==
    (asmOut.called /\ instr.dunit = UNIT_NONE) =>
      asmOut = Returned(<<"N", "O", "P">>)

C6_Witness ==
    /\ asmOut.called
    /\ instr.dunit = UNIT_NONE
    /\ instr.sunit = UNIT_MEMORY_OPERAND
    /\ instr.soperand.isNone
    /\ instr.si = 4096

\* the renderings C7 lists
C7_DestText(i) ==
    IF i.dunit = UNIT_STACK_PUSH_POP THEN <<"P", "U", "S", "H">>
    ELSE IF i.dunit = UNIT_STACK_INDEX THEN <<"S">> \o FormatHex(Bits(i.di), 6)
    ELSE IF i.dunit = UNIT_REGISTER THEN <<"R">> \o FormatHex(Bits(i.di), 2)
    ELSE IF i.dunit = UNIT_ALU_LEFT
      THEN <<"A", "L", "U", ":", "L", "E", "F", "T">>
    ELSE IF i.dunit = UNIT_ALU_RIGHT
      THEN <<"A", "L", "U", ":", "R", "I", "G", "H", "T">>
    ELSE IF i.dunit = UNIT_ALU_OPERATOR
      THEN <<"A", "L", "U", ":", "O", "P", "E", "R", "A", "T", "O", "R">>
    ELSE IF i.dunit = UNIT_MEMORY_IMMEDIATE
      THEN <<"*", "(">> \o FormatHex(Bits(i.di), 6) \o <<")">>
    ELSE <<"*", "(">> \o FormatHex(i.doperand.bits, 8) \o <<")">>

C7_SrcText(i) ==
    IF i.sunit = UNIT_NONE THEN <<"#", "0">>
    ELSE IF i.sunit = UNIT_STACK_PUSH_POP THEN <<"P", "O", "P">>
    ELSE IF i.sunit = UNIT_STACK_INDEX THEN <<"S">> \o FormatHex(Bits(i.si), 6)
    ELSE IF i.sunit = UNIT_REGISTER THEN <<"R">> \o FormatHex(Bits(i.si), 2)
    ELSE IF i.sunit = UNIT_ALU_LEFT
      THEN <<"A", "L", "U", ":", "L", "E", "F", "T">>
    ELSE IF i.sunit = UNIT_ALU_RIGHT
      THEN <<"A", "L", "U", ":", "R", "I", "G", "H", "T">>
    ELSE IF i.sunit = UNIT_ALU_OPERATOR
      THEN <<"A", "L", "U", ":", "O", "P", "E", "R", "A", "T", "O", "R">>
    ELSE IF i.sunit = UNIT_ALU_RESULT
      THEN <<"A", "L", "U", ":", "R", "E", "S", "U", "L", "T">>
    ELSE IF i.sunit = UNIT_MEMORY_IMMEDIATE
      THEN <<"*", "(">> \o FormatHex(Bits(i.si), 6) \o <<")">>
    ELSE IF i.sunit = UNIT_MEMORY_OPERAND
      THEN <<"*", "(">> \o FormatHex(i.soperand.bits, 8) \o <<")">>
    ELSE IF i.sunit = UNIT_PC THEN <<"P", "C">>
    ELSE IF i.sunit = UNIT_ABS_IMMEDIATE
      THEN <<"#">> \o FormatHex(Bits(i.si), 6)
    ELSE <<"#">> \o FormatHex(i.soperand.bits, 8)

C7_AssignDests ==
    {UNIT_STACK_PUSH_POP, UNIT_STACK_INDEX, UNIT_REGISTER, UNIT_ALU_LEFT,
     UNIT_ALU_RIGHT, UNIT_ALU_OPERATOR, UNIT_MEMORY_IMMEDIATE,
     UNIT_MEMORY_OPERAND}

\* C7 (as stated): for a well-formed instruction whose destination is one of
\* StackPushPop, StackIndex, Register, AluLeft, AluRight, AluOperator,
\* MemoryImmediate, MemoryOperand, asm() returns exactly the destination
\* rendering, " := " and the source rendering, and nothing else.
C7_DestAssignSource ==
    (asmOut.called /\ instr.dunit \in C7_AssignDests) =>
      asmOut = Returned(C7_DestText(instr) \o <<" ", ":", "=", " ">>
                          \o C7_SrcText(instr))

\* what asm() appends for the source of i after a destination other than
\* ProgramCounter: its text for i moved to the destination R00, without
\* the leading "R00 := "
C8_SourceClause(i) ==
    LET t == asm([i EXCEPT !.dunit = UNIT_REGISTER, !.di = 0,
                           !.doperand = None]).text
    IN  SubSeq(t, 8, Len(t))

\* C8 (as stated): for the destination ProgramCounter asm() renders JMP and
\* no source clause follows: the output is the same for every source.
C8_JmpWithoutSource ==
    (asmOut.called /\ instr.dunit = UNIT_PC) =>
      /\ ~asmOut.raised
      /\ asmOut.text \in {<<"J", "M", "P">>, <<"J", "M", "P", " ">>}

\* C8 (amended): for the destination ProgramCounter asm() renders "JMP "
\* without " := " and the source clause does follow it: the output is
\* "JMP " and then the source text asm() appends after any other
\* destination, so it varies with the source.
C8_JmpThenSource ==
    (asmOut.called /\ instr.dunit = UNIT_PC) =>
      /\ ~asmOut.raised
      /\ Len(asmOut.text) > 4
      /\ SubSeq(asmOut.text, 1, 4) = <<"J", "M", "P", " ">>
      /\ SubSeq(asmOut.text, 5, Len(asmOut.text)) = C8_SourceClause(instr)

C8_Witness ==
    /\ asmOut.called
    /\ instr.dunit = UNIT_PC
    /\ instr.sunit = UNIT_REGISTER /\ instr.si = 1
    /\ asmOut.text = <<"J", "M", "P", " ", "R", "0", "1">>

\* the length of the run of hex digits of s from position k on, and of the
\* one ending at position k
RECURSIVE RunLen(_, _)
RunLen(s, k) ==
    IF k <= Len(s) /\ IsHexDigit(s[k]) THEN 1 + RunLen(s, k + 1) ELSE 0

RECURSIVE BackRunLen(_, _)
BackRunLen(s, k) ==
    IF k >= 1 /\ IsHexDigit(s[k]) THEN 1 + BackRunLen(s, k - 1) ELSE 0

\* the number the destination text starts with, after "S", "R" or "*("
C9_DestDigits(t, unit) ==
    LET lead == IF unit \in {UNIT_STACK_INDEX, UNIT_REGISTER} THEN 1 ELSE 2
    IN  SubSeq(t, lead + 1, lead + RunLen(t, lead + 1))

\* the number the source text ends with, before ")" where there is one
C9_SrcDigits(t, unit) ==
    LET end == IF unit \in {UNIT_MEMORY_IMMEDIATE, UNIT_MEMORY_OPERAND}
               THEN Len(t) - 1 ELSE Len(t)
    IN  SubSeq(t, end - BackRunLen(t, end) + 1, end)

C9_Width(unit, index, exact) ==
    IF unit = UNIT_REGISTER THEN (IF exact \/ index <= 255 THEN 2 ELSE 3)
    ELSE IF UsesOperand(unit) THEN 8
    ELSE 6

C9_Rendered(digits, value, width) ==
    /\ Len(digits) = width
    /\ ParseHex(digits) = value

C9_Digits(exact) ==
    (asmOut.called /\ instr.dunit # UNIT_NONE) =>
      /\ ~asmOut.raised
      /\ instr.dunit \in {UNIT_STACK_INDEX, UNIT_REGISTER,
                          UNIT_MEMORY_IMMEDIATE, UNIT_MEMORY_OPERAND} =>
           C9_Rendered(C9_DestDigits(asmOut.text, instr.dunit),
                       IF instr.dunit = UNIT_MEMORY_OPERAND
                       THEN instr.doperand.bits ELSE Bits(instr.di),
                       C9_Width(instr.dunit, instr.di, exact))
      /\ instr.sunit \in {UNIT_STACK_INDEX, UNIT_REGISTER,
                          UNIT_MEMORY_IMMEDIATE, UNIT_MEMORY_OPERAND,
                          UNIT_ABS_IMMEDIATE, UNIT_ABS_OPERAND} =>
           C9_Rendered(C9_SrcDigits(asmOut.text, instr.sunit),
                       IF UsesOperand(instr.sunit)
                       THEN instr.soperand.bits ELSE Bits(instr.si),
                       C9_Width(instr.sunit, instr.si, exact))

\* C9 (as stated): in the text of asm(), for indices in 0..4095 and 32-bit
\* operands, a Register index has exactly 2 zero-padded lowercase hex
\* digits, a StackIndex, MemoryImmediate or AbsoluteImmediate index exactly
\* 6 and a MemoryOperand or AbsoluteOperand operand exactly 8, as source
\* and as destination.
C9_ExactDigits == C9_Digits(TRUE)

\* C9 (amended): as stated, but a Register index has exactly 2 digits only
\* when it is at most 255; a Register index in 256..4095 has 3 digits (the
\* width 2 is a minimum).
C9_PaddedDigits == C9_Digits(FALSE)

C9_Witness ==
    /\ asmOut.called
    /\ instr.dunit = UNIT_REGISTER /\ instr.di = 256
    /\ instr.sunit = UNIT_ABS_OPERAND
    /\ instr.soperand = IntVal(AllOnes32)
    /\ asmOut.text = <<"R", "1", "0", "0", " ", ":", "=", " ",
                       "#", "f", "f", "f", "f", "f", "f", "f", "f">>

====
